---- MODULE Spec2Model ----
(***************************************************************************)
(* A model of BipBuffer<u8> (src/src/lib.rs): the backing store, the six   *)
(* indices, and the operations new, clear, reserve, commit, read and       *)
(* decommit, with a caller that writes into the slice reserve() returned.  *)
(* Indices are 0-based as in the source; buffer is a TLA+ sequence, so     *)
(* slot i of the source is buffer[i + 1].  The usize indices are integers  *)
(* here: a subtraction that would underflow in the source shows as a       *)
(* negative number.  len() is buffer.capacity(), which is the length given   *)
(* to new() for a sized element type such as u8.                           *)
(***************************************************************************)
EXTENDS Integers, Sequences, FiniteSets

\* Largest length passed to new().
MaxCapacity == 3
\* Elements are 0..MaxValue (0 is u8's Default::default()).
MaxValue == 1

\* Lengths passed to reserve, commit and decommit: 0 up to more than any capacity.
MaxLen == MaxCapacity + 1
Lengths == 0..MaxLen
Values == 0..MaxValue

VARIABLES
    buffer,         \* lib.rs:56  the backing store
    a_start,        \* lib.rs:58
    a_end,          \* lib.rs:60
    b_start,        \* lib.rs:62
    b_end,          \* lib.rs:64
    reserve_start,  \* lib.rs:66
    reserve_end,    \* lib.rs:68
    op,             \* history: the last call: its name, its length argument, whether it
                    \* returned Ok/Some, and count, the number of elements it granted
                    \* (reserve), wrote (write), committed (commit), returned (read)
                    \* or removed (decommit)
    stale,          \* history: a decommit has run since the last successful reserve
    unblock,        \* history: 1 after a reserve that failed, 2 after a decommit(k), k >= 1,
                    \* that came next, 3 after a reserve(n), n >= 1, that came next; else 0
    replaced,       \* history: the outstanding reservation that the last successful
                    \* reserve discarded: its length, and whether a decommit had run
                    \* since it was granted (NoReservation after a read, decommit or clear)
    drains,         \* history: the decommits of exactly the length read() returned since
                    \* the last commit or clear, counted up to 2
    log,            \* history: elements committed, in commit order
    removed         \* history: elements removed by decommit, in removal order
                    \* (log and removed are kept without their common prefix)

indices == <<a_start, a_end, b_start, b_end, reserve_start, reserve_end>>
vars == <<buffer, a_start, a_end, b_start, b_end, reserve_start, reserve_end,
          op, stale, unblock, replaced, drains, log, removed>>

min(x, y) == IF x <= y THEN x ELSE y

\* buffer[from..to] of the source: the slots from (inclusive) to to (exclusive).
slice(from, to) == SubSeq(buffer, from + 1, to)

\* The set of slot indices of the range [from, to).
range(from, to) == from..(to - 1)

NoReservation == [length |-> 0, stale |-> FALSE]

Call(name, length, ok, count) == [name |-> name, length |-> length, ok |-> ok, count |-> count]

\* Drops the longest common prefix of two sequences: the pair <<l, r>> stripped.
RECURSIVE StripCommonPrefix(_, _)
StripCommonPrefix(l, r) ==
    IF l # <<>> /\ r # <<>> /\ Head(l) = Head(r)
    THEN StripCommonPrefix(Tail(l), Tail(r))
    ELSE <<l, r>>

(***************************************************************************)
(* Size queries (lib.rs:176-204).                                          *)
(***************************************************************************)
len == Len(buffer)

committed_len == a_end - a_start + b_end - b_start

reserved_len == reserve_end - reserve_start

is_empty == reserved_len = 0 /\ committed_len = 0

(***************************************************************************)
(* new (lib.rs:73-87): length default elements, every index 0.             *)
(***************************************************************************)
new(length) ==
    /\ buffer = [i \in 1..length |-> 0]
    /\ a_start = 0
    /\ a_end = 0
    /\ b_start = 0
    /\ b_end = 0
    /\ reserve_start = 0
    /\ reserve_end = 0
    /\ op = Call("new", length, TRUE, 0)
    /\ stale = FALSE
    /\ unblock = 0
    /\ replaced = NoReservation
    /\ drains = 0
    /\ log = <<>>
    /\ removed = <<>>

Init == \E length \in 0..MaxCapacity : new(length)

(***************************************************************************)
(* clear (lib.rs:92-99).  The history starts afresh.                       *)
(***************************************************************************)
\* A variant of clear: the reservation is left as it was.
clear_keeps_reservation ==
    /\ a_start' = 0
    /\ a_end' = 0
    /\ b_start' = 0
    /\ b_end' = 0
    /\ op' = Call("clear", 0, TRUE, 0)
    /\ stale' = FALSE
    /\ log' = <<>>
    /\ removed' = <<>>
    /\ UNCHANGED <<buffer, reserve_start, reserve_end>>

clear ==
    /\ a_start' = 0
    /\ a_end' = 0
    /\ b_start' = 0
    /\ b_end' = 0
    /\ reserve_start' = 0
    /\ reserve_end' = 0
    /\ op' = Call("clear", 0, TRUE, 0)
    /\ stale' = FALSE
    /\ log' = <<>>
    /\ removed' = <<>>
    /\ UNCHANGED buffer

(***************************************************************************)
(* reserve (lib.rs:105-127).                                               *)
(***************************************************************************)
\* A variant of reserve_start_local: a new reservation is stacked behind an outstanding one.
reserve_start_local_stacked ==
    IF reserve_end - reserve_start > 0
    THEN reserve_end
    ELSE IF (b_end - b_start) > 0
    THEN b_end
    ELSE LET space_after_a == len - a_end
         IN  IF space_after_a >= a_start THEN a_end ELSE 0

\* A variant of reserve_start_local: the space after A is used only when it is
\* strictly larger than the space before A.
reserve_start_local_strict ==
    IF (b_end - b_start) > 0
    THEN b_end
    ELSE LET space_after_a == len - a_end
         IN  IF space_after_a > a_start THEN a_end ELSE 0

\* A variant of reserve_start_local: the reservation next to a non-empty B starts at 0.
reserve_start_local_at_zero ==
    IF (b_end - b_start) > 0
    THEN 0
    ELSE LET space_after_a == len - a_end
         IN  IF space_after_a >= a_start THEN a_end ELSE 0

\* The local reserve_start of reserve (lib.rs:106-119).
reserve_start_local ==
    IF (b_end - b_start) > 0
    THEN b_end
    ELSE LET space_after_a == len - a_end
         IN  IF space_after_a >= a_start THEN a_end ELSE 0

\* A variant of free_space: next to a non-empty B, the space up to the end of the store.
free_space_to_end ==
    IF (b_end - b_start) > 0
    THEN len - b_end
    ELSE LET space_after_a == len - a_end
         IN  IF space_after_a >= a_start THEN space_after_a ELSE a_start

\* A variant of free_space: no space is found in front of A.
free_space_after_only ==
    IF (b_end - b_start) > 0
    THEN a_start - b_end
    ELSE len - a_end

\* The local free_space of reserve (lib.rs:107-119).
free_space ==
    IF (b_end - b_start) > 0
    THEN a_start - b_end
    ELSE LET space_after_a == len - a_end
         IN  IF space_after_a >= a_start THEN space_after_a ELSE a_start

\* A variant of reserve_length: the request is not clipped to the free space.
reserve_length_unclipped(length) == length

\* lib.rs:123
reserve_length(length) == min(free_space, length)

\* A variant of reserve: a request longer than the free space fails too.
reserve_fails_when_short(length) ==
    IF free_space < length \/ free_space = 0
    THEN /\ op' = Call("reserve", length, FALSE, 0)
         /\ UNCHANGED <<buffer, indices, stale, log, removed>>
    ELSE /\ reserve_start' = reserve_start_local
         /\ reserve_end' = reserve_start_local + reserve_length(length)
         /\ op' = Call("reserve", length, TRUE, reserve_end' - reserve_start')
         /\ stale' = FALSE
         /\ UNCHANGED <<buffer, a_start, a_end, b_start, b_end, log, removed>>

reserve(length) ==
    IF free_space = 0
    THEN /\ op' = Call("reserve", length, FALSE, 0)
         /\ UNCHANGED <<buffer, indices, stale, log, removed>>
    ELSE /\ reserve_start' = reserve_start_local
         /\ reserve_end' = reserve_start_local + reserve_length(length)
         /\ op' = Call("reserve", length, TRUE, reserve_end' - reserve_start')
         /\ stale' = FALSE
         /\ UNCHANGED <<buffer, a_start, a_end, b_start, b_end, log, removed>>

(***************************************************************************)
(* The caller's writes through the slice that reserve returned             *)
(* (lib.rs:126): any values in any of its slots.  The slice borrows the    *)
(* buffer mutably, so it is usable only until the next call; all the       *)
(* writes of one borrow are one step.                                      *)
(***************************************************************************)
write(data) ==
    /\ op.name = "reserve"
    /\ op.ok
    /\ buffer' = [i \in 1..len |->
                    IF reserve_start < i /\ i <= reserve_end
                    THEN data[i - reserve_start]
                    ELSE buffer[i]]
    /\ op' = Call("write", 0, TRUE, reserved_len)
    /\ UNCHANGED <<indices, stale, log, removed>>

(***************************************************************************)
(* commit (lib.rs:133-150).                                                *)
(***************************************************************************)
\* A variant of to_commit: length is not clipped to the reservation.
to_commit_unclipped(length) == length

\* A variant of to_commit: the whole reservation, whatever length says.
to_commit_whole(length) == reserve_end - reserve_start

\* lib.rs:139
to_commit(length) == min(length, reserve_end - reserve_start)

\* A variant of commit: no early return for a length of 0.
commit_without_early_return(length) ==
    /\ IF a_end - a_start = 0 /\ b_end - b_start = 0
       THEN /\ a_start' = reserve_start
            /\ a_end' = reserve_start + to_commit(length)
            /\ UNCHANGED <<b_start, b_end>>
       ELSE IF reserve_start = a_end
       THEN /\ a_end' = a_end + to_commit(length)
            /\ UNCHANGED <<a_start, b_start, b_end>>
       ELSE /\ b_end' = b_end + to_commit(length)
            /\ UNCHANGED <<a_start, a_end, b_start>>
    /\ reserve_start' = 0
    /\ reserve_end' = 0
    /\ op' = Call("commit", length, TRUE, committed_len' - committed_len)
    /\ LET committed == slice(reserve_start, reserve_start + min(length, reserved_len))
           h == StripCommonPrefix(log \o committed, removed)
       IN  log' = h[1] /\ removed' = h[2]
    /\ UNCHANGED <<buffer, stale>>

\* A variant of commit: no case for a buffer without committed data.
commit_without_empty_case(length) ==
    /\ IF length = 0
       THEN UNCHANGED <<a_start, a_end, b_start, b_end>>
       ELSE IF reserve_start = a_end
       THEN /\ a_end' = a_end + to_commit(length)
            /\ UNCHANGED <<a_start, b_start, b_end>>
       ELSE /\ b_end' = b_end + to_commit(length)
            /\ UNCHANGED <<a_start, a_end, b_start>>
    /\ reserve_start' = 0
    /\ reserve_end' = 0
    /\ op' = Call("commit", length, TRUE, committed_len' - committed_len)
    /\ LET committed == slice(reserve_start, reserve_start + min(length, reserved_len))
           h == StripCommonPrefix(log \o committed, removed)
       IN  log' = h[1] /\ removed' = h[2]
    /\ UNCHANGED <<buffer, stale>>

commit(length) ==
    /\ IF length = 0
       THEN UNCHANGED <<a_start, a_end, b_start, b_end>>
       ELSE IF a_end - a_start = 0 /\ b_end - b_start = 0
       THEN /\ a_start' = reserve_start
            /\ a_end' = reserve_start + to_commit(length)
            /\ UNCHANGED <<b_start, b_end>>
       ELSE IF reserve_start = a_end
       THEN /\ a_end' = a_end + to_commit(length)
            /\ UNCHANGED <<a_start, b_start, b_end>>
       ELSE /\ b_end' = b_end + to_commit(length)
            /\ UNCHANGED <<a_start, a_end, b_start>>
    /\ reserve_start' = 0
    /\ reserve_end' = 0
    /\ op' = Call("commit", length, TRUE, committed_len' - committed_len)
    /\ LET committed == slice(reserve_start, reserve_start + min(length, reserved_len))
           h == StripCommonPrefix(log \o committed, removed)
       IN  log' = h[1] /\ removed' = h[2]
    /\ UNCHANGED <<buffer, stale>>

(***************************************************************************)
(* read (lib.rs:155-160): None, or the slice of region A.                  *)
(***************************************************************************)
\* Option<&mut [T]>.
None == [some |-> FALSE, slice |-> <<>>]
Some(s) == [some |-> TRUE, slice |-> s]

read ==
    IF a_end - a_start = 0 THEN None ELSE Some(slice(a_start, a_end))

Read ==
    /\ op' = Call("read", 0, read.some, Len(read.slice))
    /\ UNCHANGED <<buffer, indices, stale, log, removed>>

(***************************************************************************)
(* decommit (lib.rs:165-174).                                              *)
(***************************************************************************)
\* The history of decommit: the first min(length, read().len()) elements of read().
decommit_history(length) ==
    LET seen == SubSeq(read.slice, 1, min(length, Len(read.slice)))
        h == StripCommonPrefix(log, removed \o seen)
    IN  log' = h[1] /\ removed' = h[2] /\ stale' = TRUE

\* A variant of decommit: region A is consumed only by a length greater than its size.
decommit_off_by_one(length) ==
    /\ IF length > a_end - a_start
       THEN /\ a_start' = b_start
            /\ a_end' = b_end
            /\ b_start' = 0
            /\ b_end' = 0
       ELSE /\ a_start' = a_start + length
            /\ UNCHANGED <<a_end, b_start, b_end>>
    /\ op' = Call("decommit", length, TRUE, committed_len - committed_len')
    /\ decommit_history(length)
    /\ UNCHANGED <<buffer, reserve_start, reserve_end>>

\* A variant of decommit: a consumed region A is emptied and B is dropped, not promoted.
decommit_no_promotion(length) ==
    /\ IF length >= a_end - a_start
       THEN /\ a_start' = 0
            /\ a_end' = 0
            /\ b_start' = 0
            /\ b_end' = 0
       ELSE /\ a_start' = a_start + length
            /\ UNCHANGED <<a_end, b_start, b_end>>
    /\ op' = Call("decommit", length, TRUE, committed_len - committed_len')
    /\ decommit_history(length)
    /\ UNCHANGED <<buffer, reserve_start, reserve_end>>

\* A variant of decommit: what length exceeds region A by is taken off the promoted region.
decommit_dips_into_b(length) ==
    /\ IF length >= a_end - a_start
       THEN /\ a_start' = b_start + min(length - (a_end - a_start), b_end - b_start)
            /\ a_end' = b_end
            /\ b_start' = 0
            /\ b_end' = 0
       ELSE /\ a_start' = a_start + length
            /\ UNCHANGED <<a_end, b_start, b_end>>
    /\ op' = Call("decommit", length, TRUE, committed_len - committed_len')
    /\ decommit_history(length)
    /\ UNCHANGED <<buffer, reserve_start, reserve_end>>

decommit(length) ==
    /\ IF length >= a_end - a_start
       THEN /\ a_start' = b_start
            /\ a_end' = b_end
            /\ b_start' = 0
            /\ b_end' = 0
       ELSE /\ a_start' = a_start + length
            /\ UNCHANGED <<a_end, b_start, b_end>>
    /\ op' = Call("decommit", length, TRUE, committed_len - committed_len')
    /\ decommit_history(length)
    /\ UNCHANGED <<buffer, reserve_start, reserve_end>>

(***************************************************************************)
(* Specifications.                                                         *)
(***************************************************************************)
\* The history of a call, from the call op' records and the state it ran in.
History ==
    /\ unblock' = IF unblock = 2 /\ op'.name = "reserve" /\ op'.length >= 1 THEN 3
                  ELSE IF op'.name = "reserve" /\ ~op'.ok THEN 1
                  ELSE IF unblock = 1 /\ op'.name = "decommit" /\ op'.length >= 1 THEN 2
                  ELSE 0
    /\ replaced' = IF op'.name = "reserve" /\ op'.ok
                   THEN [length |-> reserved_len, stale |-> reserved_len > 0 /\ stale]
                   ELSE IF op'.name \in {"write", "commit"} THEN replaced
                   ELSE NoReservation
    /\ drains' = IF op'.name \in {"commit", "clear"} THEN 0
                 ELSE IF op'.name = "decommit" /\ op'.length = Len(read.slice)
                      THEN min(drains + 1, 2)
                 ELSE drains

Reserve == (\E length \in Lengths : reserve(length)) /\ History
Write == (\E data \in [1..reserved_len -> Values] : write(data)) /\ History
Commit == (\E length \in Lengths : commit(length)) /\ History
ReadCall == Read /\ History
Decommit == (\E length \in Lengths : decommit(length)) /\ History
Clear == clear /\ History

Next == Reserve \/ Write \/ Commit \/ ReadCall \/ Decommit \/ Clear

Spec == Init /\ [][Next]_vars

\* Producer and consumer steps only: no clear.
NextNoClear == Reserve \/ Write \/ Commit \/ ReadCall \/ Decommit

SpecNoClear == Init /\ [][NextNoClear]_vars

(***************************************************************************)
(* Claims.                                                                 *)
(***************************************************************************)
\* The step just taken was a decommit(length) that consumed region A entirely.
FullDecommitStep == op'.name = "decommit" /\ op'.length >= a_end - a_start /\ vars' # vars

\* C1: after any sequence of calls with arbitrary lengths the six indices satisfy
\* 0 <= a_start <= a_end <= capacity, 0 <= b_start <= b_end <= capacity and
\* 0 <= reserve_start <= reserve_end <= capacity, and no subtraction of the code
\* (the differences below, evaluated left to right) goes below 0.
C1_IndexBounds ==
    /\ 0 <= a_start /\ a_start <= a_end /\ a_end <= len
    /\ 0 <= b_start /\ b_start <= b_end /\ b_end <= len
    /\ 0 <= reserve_start /\ reserve_start <= reserve_end /\ reserve_end <= len
    /\ (b_end - b_start) > 0 => a_start - b_end >= 0
    /\ a_end - a_start + b_end >= b_start

\* A commit of more than the capacity has just folded a reservation into a non-empty B.
C1_Witness ==
    /\ op.name = "commit" /\ op.length > len
    /\ b_end > b_start /\ a_end > a_start

\* C2: regions A and B are disjoint, and an outstanding reservation is disjoint from
\* both, also when decommits come between a reserve and its commit.
C2_Disjoint ==
    /\ range(a_start, a_end) \cap range(b_start, b_end) = {}
    /\ reserve_start < reserve_end =>
          /\ range(reserve_start, reserve_end) \cap range(a_start, a_end) = {}
          /\ range(reserve_start, reserve_end) \cap range(b_start, b_end) = {}

\* A decommit between a reserve and its commit has just consumed region A and promoted
\* a non-empty B, next to which the reservation is still outstanding.
C2_Witness ==
    /\ op.name = "decommit" /\ op.count > 0 /\ stale
    /\ reserve_start < reserve_end
    /\ a_start = 0 /\ a_start < a_end /\ reserve_start = a_end

\* C3: FIFO round trip without clear: the elements removed by the decommits, followed
\* by region A and then region B, are the committed elements in commit order.
C3_Fifo ==
    removed \o slice(a_start, a_end) \o slice(b_start, b_end) = log

\* A commit has just landed in region B after earlier elements were removed, and the
\* committed elements are not all equal.
C3_Witness ==
    /\ op.name = "commit" /\ op.length > 0
    /\ b_end > b_start /\ a_start > 0
    /\ Len(log) = committed_len
    /\ log[1] # log[Len(log)]

\* C4: committed_len() + reserved_len() <= len() in every reachable state.
C4_LenSum == committed_len + reserved_len <= len

\* A reservation is outstanding and with it the store is full, B being non-empty.
C4_Witness ==
    /\ reserved_len > 0 /\ b_end > b_start
    /\ committed_len + reserved_len = len

\* C5: read() returns None exactly when committed_len() = 0, otherwise the non-empty
\* slice [a_start, a_end); on a fresh or cleared buffer it returns None.
C5_ReadNoneIffEmpty ==
    /\ (read = None) <=> (committed_len = 0)
    /\ read.some => Len(read.slice) = a_end - a_start /\ Len(read.slice) > 0
    /\ op.name \in {"new", "clear"} => read = None

\* A decommit has just promoted a non-empty B while a reservation is outstanding.
C5_Witness ==
    /\ op.name = "decommit" /\ op.length > 0
    /\ a_start = 0 /\ read.some
    /\ reserved_len > 0

\* C6: read() exposes only region A: a successful reserve and the writes into its
\* slice leave read() unchanged, a commit that lands in B leaves read() unchanged,
\* B stays outside read() until a decommit(k) with k >= |A|, and then read() is
\* exactly B's former contents.
C6_ReadExposesOnlyA ==
    [][/\ (op'.name = "reserve" /\ op'.ok) \/ op'.name = "write" => read' = read
       /\ op'.name = "commit" /\ b_end' > b_end => read' = read
       /\ b_end > b_start /\ ~FullDecommitStep =>
             range(a_start', a_end') \cap range(b_start, b_end) = {}
       /\ b_end > b_start /\ FullDecommitStep => read' = Some(slice(b_start, b_end))
      ]_vars

\* A decommit has just promoted B, and read() now returns all the committed data.
C6_Witness ==
    /\ op.name = "decommit" /\ op.length > 0
    /\ a_start = 0 /\ read.some
    /\ read.slice = log /\ Len(log) > 1

\* The step just taken was a call of reserve, of commit.
ReserveStep == op'.name = "reserve" /\ vars' # vars
CommitStep == op'.name = "commit" /\ vars' # vars

\* The free space and the start of the next reservation by the priority rule of the
\* specification, stated on the indices.
RuleFree ==
    IF b_end > b_start THEN a_start - b_end
    ELSE IF len - a_end >= a_start THEN len - a_end
    ELSE a_start
RuleStart ==
    IF b_end > b_start THEN b_end
    ELSE IF len - a_end >= a_start THEN a_end
    ELSE 0

\* C7: whenever committed_len() = 0 and capacity >= 1, reserve(n) succeeds and grants
\* exactly min(n, capacity) elements, in every reachable such state.
C7_EmptyGrantsWholeStore ==
    [][ReserveStep /\ committed_len = 0 /\ len >= 1 =>
          op'.ok /\ reserved_len' = min(op'.length, len)]_vars

\* C8: reserve(n) fails exactly when the free space is 0, whatever n is, so whenever
\* committed_len() = capacity; a failed reserve changes none of the six indices.
C8_NoSpace ==
    [][ReserveStep =>
          /\ ~op'.ok <=> RuleFree = 0
          /\ committed_len = len => ~op'.ok
          /\ ~op'.ok => indices' = indices /\ buffer' = buffer]_vars

\* reserve(n), n >= 1, has just failed on a buffer that is full with B non-empty.
C8_Witness ==
    /\ op.name = "reserve" /\ ~op.ok /\ op.length >= 1
    /\ b_end > b_start /\ committed_len = len

\* C9: a successful reserve(n) grants exactly min(n, free) elements, starting where
\* the priority rule says, leaves A and B unchanged and sets reserved_len() to the
\* granted length.
C9_ReserveGrant ==
    [][ReserveStep /\ op'.ok =>
          /\ reserve_start' = RuleStart
          /\ reserve_end' = RuleStart + min(op'.length, RuleFree)
          /\ reserved_len' = min(op'.length, RuleFree)
          /\ reserved_len' <= op'.length
          /\ op'.count = reserved_len'
          /\ <<a_start', a_end', b_start', b_end'>> = <<a_start, a_end, b_start, b_end>>
      ]_vars

\* reserve(n) has just made a short grant (fewer than n elements) at the front of the
\* store, before a non-empty region A.
C9_Witness ==
    /\ op.name = "reserve" /\ op.ok
    /\ 0 < op.count /\ op.count < op.length
    /\ reserve_start = 0 /\ reserve_end = a_start /\ a_start < a_end

\* C10: commit(k), k > 0, commits exactly the first m = min(k, reserved_len()) slots of
\* the reservation: the committed slots grow by [reserve_start, reserve_start + m),
\* committed_len() grows by m and reserved_len() becomes 0.
C10_CommitFolds ==
    [][CommitStep /\ op'.length > 0 =>
          LET m == min(op'.length, reserved_len)
          IN  /\ range(a_start', a_end') \cup range(b_start', b_end') =
                    range(a_start, a_end) \cup range(b_start, b_end)
                       \cup range(reserve_start, reserve_start + m)
              /\ committed_len' = committed_len + m
              /\ reserved_len' = 0
      ]_vars

\* commit(k) has just committed fewer than k elements, all of its reservation, after a
\* decommit that ran between the reserve and this commit.
C10_Witness ==
    /\ op.name = "commit" /\ stale
    /\ 0 < op.count /\ op.count < op.length

\* The step just taken was a call of decommit, of clear, of reserve/write/commit.
DecommitStep == op'.name = "decommit" /\ vars' # vars
ClearStep == op'.name = "clear" /\ vars' # vars
ProducerStep == op'.name \in {"reserve", "write", "commit"} /\ vars' # vars

\* s is a prefix of t.
IsPrefix(s, t) == Len(s) <= Len(t) /\ SubSeq(t, 1, Len(s)) = s

\* C11: commit(0) is a pure cancellation: afterwards reserved_len() = 0 and a_start,
\* a_end, b_start, b_end, committed_len() and read() are unchanged; a second commit(0)
\* changes nothing.
C11_CommitZeroCancels ==
    [][/\ CommitStep /\ op'.length = 0 =>
             /\ reserved_len' = 0
             /\ <<a_start', a_end', b_start', b_end'>> = <<a_start, a_end, b_start, b_end>>
             /\ committed_len' = committed_len
             /\ read' = read
             /\ buffer' = buffer
       /\ op.name = "commit" /\ op.length = 0 /\ op'.name = "commit" /\ op'.length = 0 =>
             vars' = vars
      ]_vars

\* commit(0) has just run on a buffer that holds committed data in A and in B.
C11_Witness ==
    /\ op.name = "commit" /\ op.length = 0
    /\ reserved_len = 0 /\ read.some /\ b_end > b_start

\* C12: decommit(k) removes exactly the first min(k, |A|) committed elements: if k < |A|
\* read() loses its first k elements and B is unchanged; if k >= |A| region A takes B's
\* bounds, B becomes empty and committed_len() decreases by exactly |A|.  decommit never
\* fails and never changes the reservation.
C12_DecommitRemoves ==
    [][DecommitStep =>
          LET k == op'.length
              size_a == a_end - a_start
          IN  /\ op'.ok /\ op'.count = min(k, size_a)
              /\ <<reserve_start', reserve_end'>> = <<reserve_start, reserve_end>>
              /\ buffer' = buffer
              /\ k < size_a =>
                    /\ read' = Some(SubSeq(read.slice, k + 1, Len(read.slice)))
                    /\ <<b_start', b_end'>> = <<b_start, b_end>>
                    /\ committed_len' = committed_len - k
              /\ k >= size_a =>
                    /\ <<a_start', a_end'>> = <<b_start, b_end>>
                    /\ b_end' = b_start'
                    /\ committed_len' = committed_len - size_a
      ]_vars

\* A decommit of more than |A| has just removed |A| elements and promoted a non-empty B.
C12_Witness ==
    /\ op.name = "decommit"
    /\ 0 < op.count /\ op.count < op.length
    /\ a_start = 0 /\ read.some /\ b_end = b_start

\* C14: clear() sets all six indices to 0, so that committed_len() = 0,
\* reserved_len() = 0, is_empty() holds and read() is None; the backing store is
\* unchanged, and the next reserve(n) behaves as on a fresh buffer: it grants
\* min(n, capacity) elements at index 0 (and fails on a buffer of capacity 0).
C14_ClearResets ==
    [][/\ ClearStep =>
             /\ indices' = <<0, 0, 0, 0, 0, 0>>
             /\ committed_len' = 0 /\ reserved_len' = 0 /\ is_empty' /\ read' = None
             /\ buffer' = buffer
       /\ op.name = "clear" /\ ReserveStep =>
             /\ op'.ok <=> len >= 1
             /\ op'.ok => reserve_start' = 0 /\ reserved_len' = min(op'.length, len)
      ]_vars

\* clear() has just run on a buffer whose slots had been written.
C14_Witness ==
    /\ op.name = "clear" /\ is_empty
    /\ \E i \in 1..len : buffer[i] # 0

\* C15: region B is non-empty only if region A is non-empty.
C15_BNeverAlone == b_end > b_start => a_end > a_start

\* A decommit has just removed elements and B is still non-empty.
C15_Witness ==
    /\ op.name = "decommit" /\ op.count > 0
    /\ b_end > b_start

\* C16: b_start = 0 always, and a non-empty B lies in front of A with less space behind
\* A than before it: b_end <= a_start and capacity - a_end < a_start.
C16_BInFront ==
    /\ b_start = 0
    /\ b_end > b_start => b_end <= a_start /\ len - a_end < a_start

\* A commit has just extended B up to the start of A.
C16_Witness ==
    /\ op.name = "commit" /\ op.count > 0
    /\ b_end > b_start /\ b_end = a_start

\* C18 as claimed: reserve, writes into the reserved slice and commit leave a_start
\* unchanged, and read() before is a prefix of read() after.
C18_ProducerKeepsAStart ==
    [][ProducerStep => a_start' = a_start /\ IsPrefix(read.slice, read'.slice)]_vars

\* C18 as amended: reserve, writes into the reserved slice and commit leave read() before
\* a prefix of read() after, and leave a_start unchanged when region A is non-empty.
C18_ProducerKeepsRead ==
    [][ProducerStep =>
          /\ read.some => a_start' = a_start
          /\ IsPrefix(read.slice, read'.slice)]_vars

\* A commit has just extended a non-empty region A.
C18_Witness ==
    /\ op.name = "commit" /\ op.count > 0
    /\ a_end - a_start > op.count /\ b_end = b_start

\* C13: after reserve has failed on a buffer of capacity >= 1, region A is non-empty,
\* and after any single decommit(k), k >= 1, the next reserve(n), n >= 1, succeeds.
C13_DecommitUnblocks ==
    /\ op.name = "reserve" /\ ~op.ok /\ len >= 1 => a_end > a_start
    /\ unblock = 3 /\ len >= 1 => op.ok /\ reserved_len >= 1

\* reserve has failed, one element was decommitted, and reserve has just succeeded in
\* front of a region A that is still non-empty.
C13_Witness ==
    /\ unblock = 3 /\ op.ok /\ len >= 1
    /\ a_start < a_end /\ reserve_end <= a_start

\* C17 as claimed: when reserve(m) succeeds while an earlier reservation is outstanding,
\* the new reservation starts where the earlier one started, reserved_len() is
\* min(m, free) whatever the earlier length was, and a following commit(k) commits at
\* most min(k, m, free) elements.
C17_LastReservationWins ==
    [][/\ ReserveStep /\ op'.ok /\ reserved_len > 0 =>
             /\ reserve_start' = reserve_start
             /\ reserved_len' = min(op'.length, RuleFree)
       /\ CommitStep /\ op.name = "reserve" /\ op.ok =>
             op'.count <= min(min(op'.length, op.length), reserved_len)
      ]_vars

\* C17 as amended: the new reservation starts where the earlier one started when no
\* decommit has run since the earlier one was granted; in every case reserved_len() is
\* min(m, free) whatever the earlier length was, and a following commit(k) commits at
\* most min(k, m, free) elements.
C17_LastReservationWinsUnlessStale ==
    [][/\ ReserveStep /\ op'.ok /\ reserved_len > 0 =>
             /\ ~stale => reserve_start' = reserve_start
             /\ reserved_len' = min(op'.length, RuleFree)
       /\ CommitStep /\ op.name = "reserve" /\ op.ok =>
             op'.count <= min(min(op'.length, op.length), reserved_len)
      ]_vars

\* A commit has just committed the whole of a reservation that had replaced a longer one,
\* with no decommit between the two reserves.
C17_Witness ==
    /\ op.name = "commit" /\ op.count > 0
    /\ replaced.length > op.count /\ ~replaced.stale

\* C19: with no further commit, a consumer that repeatedly calls read() and decommits
\* the length it returned has emptied the buffer after two decommits, and every
\* committed element was in a read() that was decommitted.
C19_DrainInTwo ==
    /\ drains >= 1 => b_end = b_start
    /\ drains = 2 => committed_len = 0 /\ removed = log

\* The second decommit of a drain has just removed the elements promoted from B.
C19_Witness ==
    /\ drains = 2 /\ op.name = "decommit" /\ op.count > 0
    /\ committed_len = 0

====
